---------------------------- MODULE Spec2Model ----------------------------
(***************************************************************************)
(* A model of the smart-parking application: the mocked REST handlers      *)
(* (predict-availability, send-parking-sms, recognize-plate,               *)
(* print-parking-token), the automated-parking page and its CameraCapture  *)
(* component, and the token generator.                                     *)
(*                                                                         *)
(* Numbers that the source writes as decimals are kept as scaled integers: *)
(* scores and probabilities x100, prices in cents, distances in tenths of  *)
(* a kilometre, coordinates x10^4.                                         *)
(***************************************************************************)
EXTENDS Integers, Sequences, FiniteSets, TLC

VARIABLES
  now,        \* the clock read by Date.now() / new Date(), in milliseconds
  predLog,    \* the exchanges of POST /api/predict-availability, oldest first
  issued,     \* the tokens generateToken has produced, oldest first
  lastCall,   \* the last exchange with the SMS, plate or print endpoint, and
              \* the number of rows the database gained while it was handled
  db,         \* the INSERT statements the database has executed, oldest first,
              \* each with the request whose handler sent it
  \* AutomatedParkingPage: its useState cells
  stage, error, assignment, plateNumber, imageBase64, isLoading,
  runs,       \* the calls of handlePlateDetected in progress, by slot
  \* CameraCapture
  cam,        \* the useState cells of the mounted instance and the state of
              \* its getUserMedia promise
  recogs,     \* recognizePlate calls awaiting their fetch: of the mounted
              \* instance (cur) and of instances unmounted since (stale),
              \* and the recognition whose plate is shown (shown)
  timers,     \* the 500 ms callbacks scheduled, in the order they will fire,
              \* each with the number of its recognition and whether
              \* 'Confirm & Proceed' has passed its plate on already
  mediaStreams, \* the getUserMedia calls of unmounted instances not yet
              \* settled (pending), and whether a stream obtained, its tracks
              \* not stopped, is referenced by nothing any more (leaked)
  \* Home
  home,       \* its useState cells, the address typed into ParkingSearchForm
              \* and the searches awaiting their response
  localStorage, \* the item stored under 'auth_token', null when there is none
  auth,       \* AuthForm: its useState cells and its latest handleSubmit call
  modal       \* ParkingDetailsModal: bookingLoading and its latest handleBook
              \* call

apiVars == <<predLog, issued, lastCall, db>>
pageVarsButStreams ==
  <<stage, error, assignment, plateNumber, imageBase64, isLoading, runs, cam,
    recogs, timers>>
pageVars == <<pageVarsButStreams, mediaStreams>>
accountVars == <<localStorage, auth, modal>>
siteVars == <<home, accountVars>>

vars == <<now, apiVars, pageVars, siteVars>>

---------------------------------------------------------------------------
(* Bounds of the model.                                                    *)

MaxClock == 2
MaxLog == 3
MaxIssued == 2
MaxRows == 1
MaxRuns == 2
MaxPending == 2

---------------------------------------------------------------------------
(* JavaScript values, tagged with their type.                              *)

Undef == [t |-> "undefined", v |-> 0]
Null == [t |-> "null", v |-> 0]
Str(s) == [t |-> "string", v |-> s]
Num(n) == [t |-> "number", v |-> n]

\* !x : undefined, null, "" and 0 are falsy.
Falsy(x) ==
  \/ x.t \in {"undefined", "null"}
  \/ x.t = "string" /\ x.v = ""
  \/ x.t = "number" /\ x.v = 0

\* obj.key of a parsed JSON object: undefined when the key is absent.
Get(obj, key) == IF key \in DOMAIN obj THEN obj[key] ELSE Undef

\* A request body as request.json() sees it: text that does not parse, the
\* JSON value null, or an object ({} and scalars destructure like <<>>).
MalformedBody == [kind |-> "malformed", obj |-> <<>>]
NullBody == [kind |-> "null", obj |-> <<>>]
ObjectBody(o) == [kind |-> "object", obj |-> o]

---------------------------------------------------------------------------
(* Strings are sequences of one-character strings.                         *)

LowerCase == <<"a", "b", "c", "d", "e", "f", "g", "h", "i", "j", "k", "l", "m",
               "n", "o", "p", "q", "r", "s", "t", "u", "v", "w", "x", "y", "z">>
UpperCase == <<"A", "B", "C", "D", "E", "F", "G", "H", "I", "J", "K", "L", "M",
               "N", "O", "P", "Q", "R", "S", "T", "U", "V", "W", "X", "Y", "Z">>
DecDigits == <<"0", "1", "2", "3", "4", "5", "6", "7", "8", "9">>

\* String.prototype.toUpperCase
ToUpperCase(s) ==
  [i \in 1..Len(s) |->
     IF \E k \in 1..Len(LowerCase) : LowerCase[k] = s[i]
     THEN UpperCase[CHOOSE k \in 1..Len(LowerCase) : LowerCase[k] = s[i]]
     ELSE s[i]]

\* s.slice(-n): the last n characters, all of s when it is shorter.
SliceLast(s, n) == IF Len(s) <= n THEN s ELSE SubSeq(s, Len(s) - n + 1, Len(s))

\* Number.prototype.toString(radix) of a natural number, radix 10 or 36.
RECURSIVE NumToString(_, _)
NumToString(n, radix) ==
  LET digits == DecDigits \o LowerCase
      last == <<digits[(n % radix) + 1]>>
  IN IF n < radix THEN last ELSE NumToString(n \div radix, radix) \o last

\* The plate the recognition stub returns, and plates the token generator is
\* tried on: one sharing its last four characters, one in lower case.
StubPlate == <<"D", "L", "0", "1", "A", "B", "1", "2", "3", "4">>
OtherPlate == <<"M", "H", "1", "2", "X", "Y", "1", "2", "3", "4">>
LowerPlate == <<"k", "a", "0", "5", "m", "n", "9", "a", "b", "7">>
UpperPlate == <<"K", "A", "0", "5", "M", "N", "9", "A", "B", "7">>
TokenPlates == {StubPlate, OtherPlate, LowerPlate, UpperPlate}

---------------------------------------------------------------------------
(* generateToken                                                           *)

\* `PKG${lotId}${plateNumber.slice(-4).toUpperCase()}${Date.now().toString(36).toUpperCase()}`
generateToken(plate, lotId, clock) ==
  <<"P", "K", "G">> \o NumToString(lotId, 10)
    \o ToUpperCase(SliceLast(plate, 4))
    \o ToUpperCase(NumToString(clock, 36))

---------------------------------------------------------------------------
(* POST /api/predict-availability                                          *)

mockRecommendations ==
  << [ spot_id |-> 1, name |-> "Central Garage",
       latitude |-> 407128, longitude |-> -740060,
       availability_probability |-> 78, distance_km |-> 3,
       traffic_level |-> "Low", price_per_hour |-> 550,
       available_slots |-> 45, total_slots |-> 200, confidence |-> 92,
       scores |-> [availability |-> 78, distance |-> 95, traffic |-> 90,
                   price |-> 70, final |-> 83] ],
     [ spot_id |-> 2, name |-> "Downtown Lot",
       latitude |-> 407138, longitude |-> -740015,
       availability_probability |-> 65, distance_km |-> 6,
       traffic_level |-> "Medium", price_per_hour |-> 400,
       available_slots |-> 12, total_slots |-> 85, confidence |-> 88,
       scores |-> [availability |-> 65, distance |-> 85, traffic |-> 70,
                   price |-> 80, final |-> 75] ],
     [ spot_id |-> 3, name |-> "Commerce Street Garage",
       latitude |-> 407148, longitude |-> -740025,
       availability_probability |-> 85, distance_km |-> 9,
       traffic_level |-> "Low", price_per_hour |-> 350,
       available_slots |-> 78, total_slots |-> 250, confidence |-> 85,
       scores |-> [availability |-> 85, distance |-> 75, traffic |-> 90,
                   price |-> 85, final |-> 84] ],
     [ spot_id |-> 4, name |-> "Riverside Parking",
       latitude |-> 407158, longitude |-> -740035,
       availability_probability |-> 92, distance_km |-> 12,
       traffic_level |-> "Low", price_per_hour |-> 275,
       available_slots |-> 156, total_slots |-> 400, confidence |-> 82,
       scores |-> [availability |-> 92, distance |-> 65, traffic |-> 88,
                   price |-> 90, final |-> 81] ] >>

\* A handler that computes its list from the request: a request that names
\* a plate is not offered the first lot.
PredictPOST_FromRequest(request, clock) ==
  IF request.kind # "object"
  THEN [status |-> 500, body |-> [error |-> "Failed to fetch recommendations"]]
  ELSE LET address == Get(request.obj, "address") IN
       IF Falsy(address)
       THEN [status |-> 400, body |-> [error |-> "Address is required"]]
       ELSE [status |-> 200,
             body |-> [recommendations |->
                         IF Falsy(Get(request.obj, "plateNumber"))
                         THEN mockRecommendations
                         ELSE SubSeq(mockRecommendations, 2, 4),
                       address |-> address,
                       timestamp |-> clock]]

\* A handler that checks only that the address key is present.
PredictPOST_KeyOnly(request, clock) ==
  IF request.kind # "object"
  THEN [status |-> 500, body |-> [error |-> "Failed to fetch recommendations"]]
  ELSE LET address == Get(request.obj, "address") IN
       IF address = Undef
       THEN [status |-> 400, body |-> [error |-> "Address is required"]]
       ELSE [status |-> 200,
             body |-> [recommendations |-> mockRecommendations,
                       address |-> address,
                       timestamp |-> clock]]

\* The handler: request.json() or the destructuring throws into the catch
\* (500); a falsy address is answered 400; otherwise the canned list, the
\* address and the time.
PredictPOST(request, clock) ==
  IF request.kind # "object"
  THEN [status |-> 500, body |-> [error |-> "Failed to fetch recommendations"]]
  ELSE LET address == Get(request.obj, "address") IN
       IF Falsy(address)
       THEN [status |-> 400, body |-> [error |-> "Address is required"]]
       ELSE [status |-> 200,
             body |-> [recommendations |-> mockRecommendations,
                       address |-> address,
                       timestamp |-> clock]]

\* The request of the API documentation (occupancy and duration x10).
DocumentedPredictBody ==
  ObjectBody([time_of_day |-> Num(14), day_of_week |-> Num(3),
              location_id |-> Num(1),
              historical_occupancy_rate |-> Num(655),
              previous_duration_hours |-> Num(25),
              traffic_density |-> Str("Medium")])

\* The request the automated-parking page sends for a plate.
PagePredictBody(plate) ==
  ObjectBody([address |-> Str("Current Location"), plateNumber |-> Str(plate)])


\* The request the home page sends for an address.
HomePredictBody(address) == ObjectBody([address |-> address])

\* The requests the model sends to the endpoint.
PredictBodies ==
  { MalformedBody, NullBody, ObjectBody(<<>>), DocumentedPredictBody,
    PagePredictBody(StubPlate),
    ObjectBody([plateNumber |-> Str(StubPlate)]),
    ObjectBody([address |-> Str(""), plateNumber |-> Str(StubPlate)]),
    ObjectBody([address |-> Str("123 Main St"),
                plateNumber |-> Str(StubPlate),
                latitude |-> Num(407128), longitude |-> Num(-740060)]) }
  \cup { HomePredictBody(a) :
           a \in {Null, Str(""), Num(0), Str("123 Main St"),
                  Str("Current Location")} }

---------------------------------------------------------------------------
(* The database client: sql`...` sends the statement text with the values *)
(* interpolated into the template as its parameters.  The handlers         *)
(* interpolate none.                                                       *)

NoStatements == <<>>

SmsInsert ==
  [table |-> "sms_notifications",
   columns |-> <<"phone_number", "plate_number", "message", "token_number",
                 "status", "sent_at">>,
   placeholders |-> 5, params |-> <<>>, onConflict |-> {}, updates |-> {}]

PlateLogInsert ==
  [table |-> "plate_recognition_logs",
   columns |-> <<"plate_number", "image_url", "confidence", "status">>,
   placeholders |-> 4, params |-> <<>>, onConflict |-> {"plate_number"},
   updates |-> {"last_seen_at", "detection_count"}]

PrintInsert ==
  [table |-> "printer_jobs",
   columns |-> <<"token_number", "plate_number", "lot_name", "slot_number",
                 "entry_time", "estimated_exit_time", "estimated_cost",
                 "job_type", "status", "created_at">>,
   placeholders |-> 9, params |-> <<>>, onConflict |-> {}, updates |-> {}]

\* The tables of the automation schema the handlers write to: their
\* columns, the columns that are NOT NULL without a default, and the
\* columns under a PRIMARY KEY or UNIQUE constraint.
Schema ==
  [sms_notifications |->
     [columns |-> {"id", "vehicle_id", "parking_assignment_id", "phone_number",
                   "message_type", "message_content", "status", "twilio_sid",
                   "error_message", "sent_at", "created_at"},
      required |-> {"vehicle_id", "phone_number", "message_content"},
      unique |-> {"id"}],
   plate_recognition_logs |->
     [columns |-> {"id", "license_plate", "confidence_score", "image_url",
                   "camera_location", "recognized_at", "vehicle_found",
                   "vehicle_id", "processing_time_ms"},
      required |-> {},
      unique |-> {"id"}],
   printer_jobs |->
     [columns |-> {"id", "parking_assignment_id", "parking_lot_id",
                   "ticket_content", "status", "error_message", "print_time",
                   "created_at"},
      required |-> {"parking_assignment_id", "parking_lot_id", "ticket_content"},
      unique |-> {"id"}]]

---------------------------------------------------------------------------
(* POST /api/send-parking-sms                                              *)

\* Number.prototype.toFixed(2) of an amount kept in cents.
ToFixed2(cents) == [units |-> cents \div 100, hundredths |-> cents % 100]

\* The text of the SMS, as the values it interpolates.
formatAssignmentMessage(plate, lotName, assignedSlot, tokenNumber, estimatedCost, distanceKm) ==
  [title |-> "PARKING ASSIGNED", vehicle |-> plate, lot |-> lotName,
   slot |-> assignedSlot, distance |-> distanceKm,
   cost |-> ToFixed2(estimatedCost.v), token |-> tokenNumber]

SmsError == [status |-> 500, body |-> [error |-> "Failed to send SMS notification"]]

\* A handler that stores the notification before it validates the request.
SmsPOST_InsertFirst(request, dbOk, clock) ==
  IF request.kind # "object"
  THEN [res |-> SmsError, stmts |-> NoStatements]
  ELSE IF ~dbOk
  THEN [res |-> SmsError, stmts |-> <<SmsInsert>>]
  ELSE IF \E f \in {"phoneNumber", "plateNumber", "lotName", "tokenNumber"} :
            Falsy(Get(request.obj, f))
  THEN [res |-> [status |-> 400, body |-> [error |-> "Missing required fields"]],
        stmts |-> <<SmsInsert>>]
  ELSE [res |-> [status |-> 200,
                 body |-> [success |-> TRUE,
                           message |-> "SMS notification sent successfully",
                           token |-> Get(request.obj, "tokenNumber"),
                           timestamp |-> clock]],
        stmts |-> <<SmsInsert>>]

\* The handler answers with res after sending stmts to the database, whose
\* insert succeeds (dbOk) or throws.  request.json(), the destructuring of
\* null, estimatedCost.toFixed of a value that is no number, and the insert
\* throw into the catch.
SmsPOST(request, dbOk, clock) ==
  IF request.kind # "object"
  THEN [res |-> SmsError, stmts |-> NoStatements]
  ELSE IF \E f \in {"phoneNumber", "plateNumber", "lotName", "tokenNumber"} :
            Falsy(Get(request.obj, f))
  THEN [res |-> [status |-> 400, body |-> [error |-> "Missing required fields"]],
        stmts |-> NoStatements]
  ELSE IF Get(request.obj, "estimatedCost").t # "number"
  THEN [res |-> SmsError, stmts |-> NoStatements]
  ELSE IF ~dbOk
  THEN [res |-> SmsError, stmts |-> <<SmsInsert>>]
  ELSE [res |-> [status |-> 200,
                 body |-> [success |-> TRUE,
                           message |-> "SMS notification sent successfully",
                           token |-> Get(request.obj, "tokenNumber"),
                           timestamp |-> clock]],
        stmts |-> <<SmsInsert>>]

---------------------------------------------------------------------------
(* POST /api/recognize-plate                                               *)

\* A recognizer that looks at the image and fails on some.
recognizePlateNumber_FromImage(base64Image) ==
  IF base64Image = "jpeg-1" THEN Str(StubPlate) ELSE Null

\* The OCR stub: the same plate for every image.
recognizePlateNumber(base64Image) == Str(StubPlate)

RecognizeError ==
  [status |-> 500, body |-> [error |-> "Failed to recognize plate number"]]

\* request is a form: kind "malformed" when formData() throws, else obj
\* holds the form's entries.
RecognizePOST(request, dbOk, clock) ==
  IF request.kind # "object"
  THEN [res |-> RecognizeError, stmts |-> NoStatements]
  ELSE LET imageFile == Get(request.obj, "image") IN
  IF Falsy(imageFile)
  THEN [res |-> [status |-> 400, body |-> [error |-> "No image file provided"]],
        stmts |-> NoStatements]
  ELSE LET recognized == recognizePlateNumber(imageFile.v) IN
  IF Falsy(recognized)
  THEN [res |-> [status |-> 400,
                 body |-> [error |-> "Unable to recognize plate number"]],
        stmts |-> NoStatements]
  ELSE IF ~dbOk
  THEN [res |-> RecognizeError, stmts |-> <<PlateLogInsert>>]
  ELSE [res |-> [status |-> 200,
                 body |-> [success |-> TRUE, plateNumber |-> recognized,
                           timestamp |-> clock]],
        stmts |-> <<PlateLogInsert>>]

---------------------------------------------------------------------------
(* POST /api/print-parking-token                                           *)

PrintError == [status |-> 500, body |-> [error |-> "Failed to create print job"]]

\* A handler that answers without waiting for the insert to settle.
PrintPOST_AnswerFirst(request, dbOk, clock) ==
  IF request.kind # "object"
  THEN [res |-> PrintError, stmts |-> NoStatements]
  ELSE IF \E f \in {"tokenNumber", "plateNumber", "lotName"} :
            Falsy(Get(request.obj, f))
  THEN [res |-> [status |-> 400, body |-> [error |-> "Missing required fields"]],
        stmts |-> NoStatements]
  ELSE [res |-> [status |-> 200,
                 body |-> [success |-> TRUE,
                           message |-> "Print job sent to thermal printer",
                           tokenNumber |-> Get(request.obj, "tokenNumber"),
                           jobId |-> <<"PRINT_", Get(request.obj, "tokenNumber"),
                                       "_", clock>>,
                           timestamp |-> clock]],
        stmts |-> <<PrintInsert>>]

\* request.json(), the destructuring of null and the insert throw into the
\* catch; the response is built after the insert settled.
PrintPOST(request, dbOk, clock) ==
  IF request.kind # "object"
  THEN [res |-> PrintError, stmts |-> NoStatements]
  ELSE IF \E f \in {"tokenNumber", "plateNumber", "lotName"} :
            Falsy(Get(request.obj, f))
  THEN [res |-> [status |-> 400, body |-> [error |-> "Missing required fields"]],
        stmts |-> NoStatements]
  ELSE IF ~dbOk
  THEN [res |-> PrintError, stmts |-> <<PrintInsert>>]
  ELSE [res |-> [status |-> 200,
                 body |-> [success |-> TRUE,
                           message |-> "Print job sent to thermal printer",
                           tokenNumber |-> Get(request.obj, "tokenNumber"),
                           jobId |-> <<"PRINT_", Get(request.obj, "tokenNumber"),
                                       "_", clock>>,
                           timestamp |-> clock]],
        stmts |-> <<PrintInsert>>]

---------------------------------------------------------------------------
(* GET /api/print-parking-token                                            *)

\* The query of the status handler; like the inserts it is sent without
\* parameters.
PrintJobSelect ==
  [table |-> "printer_jobs", where |-> [column |-> "token_number", param |-> 1],
   placeholders |-> 1, params |-> <<>>]

\* The value a statement supplies for its i-th placeholder.
Param(stmt, i) == IF i <= Len(stmt.params) THEN stmt.params[i] ELSE Null

\* The row an executed INSERT wrote: the columns that take a placeholder,
\* each with the parameter supplied for it.
RowOf(entry) ==
  LET st == entry.stmt IN
  [c \in {st.columns[i] : i \in 1..st.placeholders} |->
     Param(st, CHOOSE i \in 1..st.placeholders : st.columns[i] = c)]

\* SELECT * ... WHERE column = $n ORDER BY created_at DESC LIMIT 1: the
\* newest row of the table whose column equals the parameter.  No value
\* equals NULL.
SelectNewest(stmt) ==
  LET value == Param(stmt, stmt.where.param)
      match(e) == /\ e.stmt.table = stmt.table
                  /\ stmt.where.column \in DOMAIN RowOf(e)
                  /\ value # Null
                  /\ RowOf(e)[stmt.where.column] = value
      found == SelectSeq(db, match)
  IN IF found = <<>> THEN <<>> ELSE <<RowOf(found[Len(found)])>>

\* URLSearchParams.get: null for a key that is absent.
SearchParam(query, key) == IF key \in DOMAIN query THEN query[key] ELSE Null

PrintStatusError ==
  [status |-> 500, body |-> [error |-> "Failed to retrieve print job status"]]

\* The handler answers with res after sending stmts; the query is answered
\* (dbOk) or throws.
PrintGET(query, dbOk) ==
  LET token == SearchParam(query, "token") IN
  IF Falsy(token)
  THEN [res |-> [status |-> 400, body |-> [error |-> "Token number required"]],
        stmts |-> NoStatements]
  ELSE IF ~dbOk
  THEN [res |-> PrintStatusError, stmts |-> <<PrintJobSelect>>]
  ELSE LET jobs == SelectNewest(PrintJobSelect) IN
  IF Len(jobs) = 0
  THEN [res |-> [status |-> 404, body |-> [error |-> "Print job not found"]],
        stmts |-> <<PrintJobSelect>>]
  ELSE [res |-> [status |-> 200, body |-> [success |-> TRUE, job |-> jobs[1]]],
        stmts |-> <<PrintJobSelect>>]

\* The query strings sent to the status handler: none, ?token=, ?token=x
\* and ?token=y.
PrintQueries == {<<>>, [token |-> Str("")], [token |-> Str("x")], [token |-> Str("y")]}

---------------------------------------------------------------------------
(* The requests the model sends to the three endpoints.                    *)

\* The object holding every one of fields, and the objects that lack one of
\* them or hold it empty.
OneDefect(fields) ==
  LET full == [f \in fields |-> Str("x")] IN
  {full} \cup { [k \in fields \ {f} |-> full[k]] : f \in fields }
         \cup { [full EXCEPT ![f] = Str("")] : f \in fields }

SmsBodies ==
  {MalformedBody, NullBody} \cup
  { ObjectBody(o) :
      o \in { [k \in DOMAIN r \cup DOMAIN c |->
                 IF k \in DOMAIN r THEN r[k] ELSE c[k]] :
               r \in OneDefect({"phoneNumber", "plateNumber", "lotName",
                                "tokenNumber"}),
               c \in {<<>>, [estimatedCost |-> Num(1100)]} } }

PrintBodies ==
  {MalformedBody, NullBody} \cup
  { ObjectBody(o) : o \in OneDefect({"tokenNumber", "plateNumber", "lotName"}) }

RecognizeForms ==
  { MalformedBody, ObjectBody(<<>>),
    ObjectBody([image |-> Str("jpeg-1")]), ObjectBody([image |-> Str("jpeg-2")]) }

---------------------------------------------------------------------------
(* Actions.                                                                *)

\* The database executes the statements a handler sent while it handled
\* body, when the insert succeeds.
Execute(out, body, dbOk) ==
  IF dbOk
  THEN db \o [i \in 1..Len(out.stmts) |-> [stmt |-> out.stmts[i], by |-> body]]
  ELSE db

\* Time passes.
Tick ==
  /\ now < MaxClock
  /\ now' = now + 1
  /\ UNCHANGED <<apiVars, pageVars, siteVars>>

\* A client posts a body to /api/predict-availability and is answered.
PredictRequest ==
  \E body \in PredictBodies :
    /\ Len(predLog) < MaxLog
    /\ predLog' = Append(predLog, [req |-> body, res |-> PredictPOST(body, now)])
    /\ UNCHANGED <<now, issued, lastCall, db, pageVars, siteVars>>

\* A client generates the token of an assignment of a plate to a lot.
IssueToken ==
  \E plate \in TokenPlates, k \in 1..Len(mockRecommendations) :
    LET lotId == mockRecommendations[k].spot_id IN
    /\ Len(issued) < MaxIssued
    /\ issued' = Append(issued, [plateNumber |-> plate, lotId |-> lotId, at |-> now,
                                 tokenNumber |-> generateToken(plate, lotId, now)])
    /\ UNCHANGED <<now, predLog, lastCall, db, pageVars, siteVars>>

---------------------------------------------------------------------------
(* AutomatedParkingPage and CameraCapture                                  *)

Obj(o) == [t |-> "object", v |-> o]

\* The image a capture or an upload yields, as a data URL.
Image == "data:image/jpeg;base64"

\* CameraCapture as mounted: the initial useState values, getUserMedia
\* called and not settled.
CamMounted ==
  [isCameraActive |-> FALSE, detectedPlate |-> Null, isLoading |-> FALSE,
   error |-> Null, capturedImage |-> Null, cameraPermission |-> "pending",
   getUserMedia |-> "pending", srcObject |-> Null]

\* No instance is mounted.
CamUnmounted == [CamMounted EXCEPT !.getUserMedia = "none"]

\* videoRef.current is the <video> element, rendered only when no image is
\* shown and isCameraActive.
VideoMounted(c) == c.capturedImage = Null /\ c.isCameraActive

\* 'Capture Photo' is rendered when no image is shown, and disabled unless
\* the camera is active and no recognition is loading.
CaptureEnabled(c) == c.capturedImage = Null /\ c.isCameraActive /\ ~c.isLoading

\* A slot holding no call, and a call of handlePlateDetected as it starts.
\* smsFailed tells whether the SMS request of the call failed.
FreeRun ==
  [pc |-> "free", plate |-> <<>>, recs |-> <<>>, newAssignment |-> Null,
   smsReq |-> Null, printReq |-> Null, events |-> <<>>, smsFailed |-> FALSE]
NewRun(plate) == [FreeRun EXCEPT !.pc = "delay", !.plate = plate]

\* The slot a new call takes: the first that holds no call.  A call that
\* returns frees its slot.
AvailableSlots == {r \in 1..MaxRuns : runs[r].pc = "free"}
NextSlot == CHOOSE r \in AvailableSlots : \A q \in AvailableSlots : r <= q

\* The page renders CameraCapture exactly in stage 'capturing': a change of
\* stage mounts a fresh instance or unmounts the instance, whose pending
\* recognitions go on without it.
CamAfter(c, newStage) ==
  IF newStage = "capturing"
  THEN IF stage = "capturing" THEN c ELSE CamMounted
  ELSE CamUnmounted
\* The cleanup of the effect, run when the instance unmounts: the tracks of
\* the stream in videoRef.current.srcObject are stopped, when there is a
\* video element holding one.  A stream the cleanup does not stop is
\* referenced by nothing once the instance is gone, and the getUserMedia
\* call of the instance, when not settled, goes on without it.
CleanupStops(c) == VideoMounted(c) /\ c.srcObject # Null
StreamsAfter(newStage) ==
  IF stage = "capturing" /\ newStage # "capturing"
  THEN [pending |-> mediaStreams.pending
                      + (IF cam.getUserMedia = "pending" THEN 1 ELSE 0),
        leaked |-> \/ mediaStreams.leaked
                   \/ cam.srcObject # Null /\ ~CleanupStops(cam)]
  ELSE mediaStreams

RecogsAfter(g, newStage) ==
  IF newStage # "capturing"
  THEN [cur |-> 0, stale |-> g.cur + g.stale, shown |-> 0]
  ELSE g

\* Recognitions that found a plate are told apart by a number no pending
\* callback carries; recogs.shown is the number of the recognition whose
\* plate the mounted instance shows as detectedPlate, 0 when it shows none.
FreshId ==
  CHOOSE i \in 1..MaxPending :
    /\ \A k \in 1..Len(timers) : timers[k].id # i
    /\ \A j \in 1..(i - 1) : \E k \in 1..Len(timers) : timers[k].id = j

\* assignParking: the assignment made of the first recommendation.
NewAssignment(plate, lot, clock) ==
  [tokenNumber |-> generateToken(plate, lot.spot_id, clock),
   plateNumber |-> plate,
   lotName |-> lot.name,
   assignedSlot |-> <<lot.spot_id, "-A1">>,
   distance_km |-> lot.distance_km,
   estimated_cost |-> lot.price_per_hour * 2,
   duration_minutes |-> 120,
   confidence_score |-> IF lot.confidence = 0 THEN 85 ELSE lot.confidence]

\* sendSmsNotification: the body posted to /api/send-parking-sms.
SmsBody(a) ==
  ObjectBody([phoneNumber |-> Str("+1234567890"),
              plateNumber |-> Str(a.plateNumber),
              lotName |-> Str(a.lotName),
              assignedSlot |-> Str(a.assignedSlot),
              tokenNumber |-> Str(a.tokenNumber),
              estimatedCost |-> Num(a.estimated_cost),
              distanceKm |-> Num(a.distance_km)])

\* A print job that prices one hour.
PrintBody_OneHour(a, clock) ==
  ObjectBody([tokenNumber |-> Str(a.tokenNumber),
              plateNumber |-> Str(a.plateNumber),
              lotName |-> Str(a.lotName),
              slotNumber |-> Str(a.assignedSlot),
              entryTime |-> Num(clock),
              estimatedExitTime |-> Num(clock + a.duration_minutes * 60000),
              estimatedCost |-> Num(a.estimated_cost \div 2)])

\* sendPrintJob: the body posted to /api/print-parking-token.
PrintBody(a, clock) ==
  ObjectBody([tokenNumber |-> Str(a.tokenNumber),
              plateNumber |-> Str(a.plateNumber),
              lotName |-> Str(a.lotName),
              slotNumber |-> Str(a.assignedSlot),
              entryTime |-> Num(clock),
              estimatedExitTime |-> Num(clock + a.duration_minutes * 60000),
              estimatedCost |-> Num(a.estimated_cost)])

\* The getUserMedia calls, recognitions, callbacks and calls of
\* handlePlateDetected under way.
Pending ==
  recogs.cur + recogs.stale + Len(timers)
    + Cardinality({r \in 1..MaxRuns : runs[r].pc # "free"})
    + mediaStreams.pending + (IF cam.getUserMedia = "pending" THEN 1 ELSE 0)

\* 'Start Plate Recognition', in stage 'idle'.
StartPlateRecognition ==
  /\ stage = "idle"
  /\ Pending < MaxPending
  /\ stage' = "capturing"
  /\ cam' = CamAfter(cam, "capturing")
  /\ UNCHANGED <<now, apiVars, siteVars, mediaStreams, error, assignment,
                 plateNumber, imageBase64, isLoading, runs, recogs, timers>>

\* 'Try Again' of the error card.
TryAgain ==
  /\ stage = "error"
  /\ Pending < MaxPending
  /\ stage' = "capturing"
  /\ cam' = CamAfter(cam, "capturing")
  /\ UNCHANGED <<now, apiVars, siteVars, mediaStreams, error, assignment,
                 plateNumber, imageBase64, isLoading, runs, recogs, timers>>

\* onClose of CameraCapture: the X and the 'Close' button.
CloseScanner ==
  /\ stage = "capturing"
  /\ stage' = "idle"
  /\ cam' = CamAfter(cam, "idle")
  /\ recogs' = RecogsAfter(recogs, "idle")
  /\ mediaStreams' = StreamsAfter("idle")
  /\ UNCHANGED <<now, apiVars, siteVars, error, assignment, plateNumber, imageBase64,
                 isLoading, runs, timers>>

\* handleReset: 'Scan Another Vehicle' of the success card, rendered when
\* assignment is set, and 'Start Over' of the error card.
handleReset ==
  /\ \/ stage = "success" /\ assignment # Null
     \/ stage = "error"
  /\ stage' = "idle"
  /\ error' = Null
  /\ assignment' = Null
  /\ plateNumber' = Null
  /\ imageBase64' = Null
  /\ UNCHANGED <<now, apiVars, siteVars, mediaStreams, isLoading, runs, cam, recogs,
                 timers>>

\* initCamera after its await: getUserMedia resolves with a stream or
\* rejects, in the mounted instance.  The stream is kept in the srcObject
\* of the video element when there is one, and in nothing otherwise.
GetUserMediaSettles ==
  \E granted \in BOOLEAN :
    /\ stage = "capturing"
    /\ cam.getUserMedia = "pending"
    /\ cam' = IF granted
              THEN IF VideoMounted(cam)
                   THEN [cam EXCEPT !.getUserMedia = "resolved",
                                    !.srcObject = Str("MediaStream"),
                                    !.isCameraActive = TRUE,
                                    !.cameraPermission = "granted"]
                   ELSE [cam EXCEPT !.getUserMedia = "resolved"]
              ELSE [cam EXCEPT
                      !.getUserMedia = "rejected",
                      !.error = Str("Camera access denied. Please enable camera permissions."),
                      !.cameraPermission = "denied"]
    /\ mediaStreams' = IF granted /\ ~VideoMounted(cam)
                       THEN [mediaStreams EXCEPT !.leaked = TRUE]
                       ELSE mediaStreams
    /\ UNCHANGED <<now, apiVars, siteVars, stage, error, assignment, plateNumber,
                   imageBase64, isLoading, runs, recogs, timers>>

\* initCamera after its await in an instance unmounted since: its setState
\* calls do nothing, and a stream obtained is kept in nothing.
StaleGetUserMediaSettles ==
  \E granted \in BOOLEAN :
    /\ mediaStreams.pending > 0
    /\ mediaStreams' = [pending |-> mediaStreams.pending - 1,
                        leaked |-> mediaStreams.leaked \/ granted]
    /\ UNCHANGED <<now, apiVars, siteVars, pageVarsButStreams>>

\* captureFrame ('Capture Photo', when enabled) and handleFileUpload
\* ('Upload Image', with the file read): the image is shown and
\* recognizePlate runs up to its fetch.
TakeImage ==
  \E source \in {"capture", "upload"} :
    /\ stage = "capturing"
    /\ cam.capturedImage = Null
    /\ source = "capture" => CaptureEnabled(cam) /\ VideoMounted(cam)
    /\ Pending < MaxPending
    /\ cam' = [cam EXCEPT !.capturedImage = Str(Image), !.isLoading = TRUE,
                          !.error = Null, !.detectedPlate = Null,
                          !.srcObject = Null]
    /\ mediaStreams' = IF cam.srcObject # Null
                       THEN [mediaStreams EXCEPT !.leaked = TRUE]
                       ELSE mediaStreams
    /\ recogs' = [recogs EXCEPT !.cur = @ + 1, !.shown = 0]
    /\ UNCHANGED <<now, apiVars, siteVars, stage, error, assignment, plateNumber,
                   imageBase64, isLoading, runs, timers>>

\* 'Try Again' of CameraCapture, rendered while an image is shown.
handleRetry ==
  /\ stage = "capturing"
  /\ cam.capturedImage # Null
  /\ cam' = [cam EXCEPT !.detectedPlate = Null, !.capturedImage = Null,
                        !.error = Null]
  /\ recogs' = [recogs EXCEPT !.shown = 0]
  /\ UNCHANGED <<now, apiVars, siteVars, mediaStreams, stage, error, assignment,
                 plateNumber, imageBase64, isLoading, runs, timers>>

\* recognizePlate after its fetch: the request threw, or the endpoint
\* answered.  A plate in an OK answer is shown and its callback scheduled;
\* the setState calls of an unmounted instance do nothing.
RecognizeSettles ==
  \E inst \in {"cur", "stale"}, threw \in BOOLEAN, dbOk \in BOOLEAN :
    LET res == RecognizePOST(ObjectBody([image |-> Str(Image)]), dbOk, now).res
        ok == ~threw /\ res.status = 200
        plate == IF ok THEN Get(res.body, "plateNumber") ELSE Undef
        message == IF ok THEN "No license plate detected. Please try again."
                   ELSE "Failed to recognize plate"
    IN /\ recogs[inst] > 0
       /\ recogs' = [recogs EXCEPT
                       ![inst] = @ - 1,
                       !.shown = IF inst = "cur" /\ ~Falsy(plate) THEN FreshId ELSE @]
       /\ timers' = IF ~Falsy(plate)
                    THEN Append(timers, [plate |-> plate.v, image |-> Image,
                                         id |-> FreshId, confirmed |-> FALSE])
                    ELSE timers
       /\ cam' = IF inst = "stale" THEN cam
                 ELSE IF ~Falsy(plate)
                 THEN [cam EXCEPT !.detectedPlate = plate, !.isLoading = FALSE]
                 ELSE [cam EXCEPT !.error = Str(message), !.isLoading = FALSE]
       /\ UNCHANGED <<now, apiVars, siteVars, mediaStreams, stage, error, assignment,
                      plateNumber, imageBase64, isLoading, runs>>

\* handlePlateDetected up to its await of the 1000 ms delay.
handlePlateDetected(plate, image) ==
  /\ AvailableSlots # {}
  /\ plateNumber' = Str(plate)
  /\ imageBase64' = Str(image)
  /\ stage' = "recognizing"
  /\ error' = Null
  /\ runs' = [runs EXCEPT ![NextSlot] = NewRun(plate)]
  /\ cam' = CamAfter(cam, "recognizing")
  /\ recogs' = RecogsAfter(recogs, "recognizing")
  /\ mediaStreams' = StreamsAfter("recognizing")
  /\ UNCHANGED <<now, apiVars, siteVars, assignment, isLoading>>

\* 'Confirm & Proceed', rendered while an image and a detected plate are
\* shown.  The callback scheduled for the plate stays scheduled.
ConfirmAndProceed ==
  /\ stage = "capturing"
  /\ cam.capturedImage # Null
  /\ cam.detectedPlate # Null
  /\ handlePlateDetected(cam.detectedPlate.v, cam.capturedImage.v)
  /\ timers' = [k \in 1..Len(timers) |->
                  IF timers[k].id = recogs.shown
                  THEN [timers[k] EXCEPT !.confirmed = TRUE]
                  ELSE timers[k]]

\* The callback recognizePlate scheduled fires.
TimerFires ==
  /\ timers # <<>>
  /\ handlePlateDetected(Head(timers).plate, Head(timers).image)
  /\ timers' = Tail(timers)

\* The delay of handlePlateDetected is over: assignParking runs up to its
\* fetch of /api/predict-availability.
DelayElapses ==
  \E r \in 1..MaxRuns :
    /\ runs[r].pc = "delay"
    /\ stage' = "assigning"
    /\ isLoading' = TRUE
    /\ runs' = [runs EXCEPT ![r].pc = "predict",
                            ![r].events = Append(@, "predict-request")]
    /\ cam' = CamAfter(cam, "assigning")
    /\ recogs' = RecogsAfter(recogs, "assigning")
    /\ mediaStreams' = StreamsAfter("assigning")
    /\ UNCHANGED <<now, apiVars, siteVars, error, assignment, plateNumber, imageBase64,
                   timers>>

\* The catch and the finally of assignParking, for the call in slot r.
AssignParkingCatch(r, message) ==
  /\ error' = Str(message)
  /\ stage' = "error"
  /\ isLoading' = FALSE
  /\ runs' = [runs EXCEPT ![r] = FreeRun]
  /\ cam' = CamAfter(cam, "error")
  /\ recogs' = RecogsAfter(recogs, "error")
  /\ mediaStreams' = StreamsAfter("error")

\* assignParking after its fetch: the request threw or the endpoint
\* answered.  With recommendations the assignment is made of the first and
\* the SMS request sent; otherwise the catch and the finally run.
PredictSettles ==
  \E r \in 1..MaxRuns, threw \in BOOLEAN :
    LET res == PredictPOST(PagePredictBody(runs[r].plate), now)
        ok == ~threw /\ res.status = 200
        recs == IF ok /\ "recommendations" \in DOMAIN res.body
                THEN res.body.recommendations ELSE <<>>
        a == NewAssignment(runs[r].plate, recs[1], now)
        message == IF threw THEN "Failed to assign parking"
                   ELSE IF ~ok THEN "Failed to get parking recommendation"
                   ELSE "No parking available"
    IN /\ runs[r].pc = "predict"
       /\ IF Len(recs) > 0
          THEN /\ assignment' = Obj(a)
               /\ runs' = [runs EXCEPT
                             ![r].pc = "sms", ![r].recs = recs,
                             ![r].newAssignment = Obj(a),
                             ![r].smsReq = SmsBody(a),
                             ![r].events = @ \o <<"predict-response",
                                                  "sms-request">>]
               /\ UNCHANGED <<stage, error, isLoading, cam, recogs, mediaStreams>>
          ELSE /\ AssignParkingCatch(r, message)
               /\ UNCHANGED assignment
       /\ UNCHANGED <<now, apiVars, siteVars, plateNumber, imageBase64, timers>>

\* What a fetch of the SMS or the print endpoint comes to: the status of
\* the answer, or the fetch threw.
FetchOutcomes == {"200", "400", "500", "threw"}

\* sendSmsNotification and sendPrintJob: the fetch, whose answer is not
\* looked at, in a try whose catch logs.  Each returns whatever the fetch
\* comes to.
sendSmsNotification_Rethrow(outcome) ==
  IF outcome = "threw" THEN "threw" ELSE "returned"
sendSmsNotification(outcome) == "returned"
sendPrintJob(outcome) == "returned"

\* sendSmsNotification after its fetch: sendPrintJob runs up to its fetch.
SmsSettles ==
  \E r \in 1..MaxRuns, outcome \in FetchOutcomes :
    /\ runs[r].pc = "sms"
    /\ IF sendSmsNotification(outcome) = "returned"
       THEN /\ runs' = [runs EXCEPT
                          ![r].pc = "print",
                          ![r].printReq = PrintBody(runs[r].newAssignment.v, now),
                          ![r].events = @ \o <<"sms-settled", "print-request">>,
                          ![r].smsFailed = outcome # "200"]
            /\ UNCHANGED <<stage, error, isLoading, cam, recogs, mediaStreams>>
       ELSE AssignParkingCatch(r, "Failed to fetch")
    /\ UNCHANGED <<now, apiVars, siteVars, assignment, plateNumber, imageBase64,
                   timers>>

\* sendPrintJob after its fetch: the stage is set to 'success' and the
\* finally runs.
PrintSettles ==
  \E r \in 1..MaxRuns, outcome \in FetchOutcomes :
    /\ runs[r].pc = "print"
    /\ IF sendPrintJob(outcome) = "returned"
       THEN /\ stage' = "success"
            /\ isLoading' = FALSE
            /\ runs' = [runs EXCEPT ![r] = FreeRun]
            /\ cam' = CamAfter(cam, "success")
            /\ recogs' = RecogsAfter(recogs, "success")
            /\ mediaStreams' = StreamsAfter("success")
            /\ UNCHANGED error
       ELSE AssignParkingCatch(r, "Failed to fetch")
    /\ UNCHANGED <<now, apiVars, siteVars, assignment, plateNumber, imageBase64,
                   timers>>

\* The page reads the clock only into the token and the print times; its
\* steps are taken at one reading of the clock.
NextPage ==
  \/ StartPlateRecognition
  \/ TryAgain
  \/ CloseScanner
  \/ handleReset
  \/ GetUserMediaSettles
  \/ StaleGetUserMediaSettles
  \/ TakeImage
  \/ handleRetry
  \/ RecognizeSettles
  \/ ConfirmAndProceed
  \/ TimerFires
  \/ DelayElapses
  \/ PredictSettles
  \/ SmsSettles
  \/ PrintSettles

---------------------------------------------------------------------------
(* Home and ParkingSearchForm.                                             *)

RECURSIVE TrimStart(_), TrimEnd(_)
TrimStart(s) == IF s # <<>> /\ Head(s) = " " THEN TrimStart(Tail(s)) ELSE s
TrimEnd(s) ==
  IF s # <<>> /\ s[Len(s)] = " " THEN TrimEnd(SubSeq(s, 1, Len(s) - 1)) ELSE s

\* String.prototype.trim of a sequence of characters.
Trim(s) == TrimEnd(TrimStart(s))

\* The characters of an address as the string JSON.stringify sends.
JsString(chars) == IF chars = <<>> THEN Str("") ELSE Str(chars)

\* What the user types into the address input.
HomeAddresses == {<<>>, <<" ">>, <<"a">>, <<" ", "a">>}

\* Home's state after mounting; last describes the search that finished
\* last: its outcome, the list shown when it began, the list it received.
HomeInit ==
  [address |-> <<>>, recommendations |-> <<>>, loading |-> FALSE,
   error |-> Null, selectedLocation |-> Null, searches |-> <<>>,
   last |-> [outcome |-> "none", shown |-> <<>>, recommendations |-> <<>>]]

\* An answer with a status outside 200..299, as fetch delivers it.
NotOkResponse == [status |-> 502, body |-> <<>>]

\* catch and finally of handleSearch.
HomeAfterFailure_KeepList(h, message) ==
  [h EXCEPT !.error = Str(message), !.loading = FALSE]

HomeAfterFailure(h, message) ==
  [h EXCEPT !.error = Str(message), !.recommendations = <<>>,
            !.loading = FALSE]

\* The end of the try block and finally of handleSearch.
HomeAfterSuccess(h, data) ==
  [h EXCEPT !.recommendations = IF "recommendations" \in DOMAIN data
                                THEN data.recommendations ELSE <<>>,
            !.loading = FALSE]

\* The user edits the address; the input is disabled while loading.
TypeAddress ==
  \E a \in HomeAddresses :
    /\ ~home.loading
    /\ a # home.address
    /\ home' = [home EXCEPT !.address = a]
    /\ UNCHANGED <<now, apiVars, pageVars, accountVars>>

\* The form can be submitted: the button is disabled, and the input with
\* it, while loading or when the trimmed address is empty; handleSubmit
\* checks the address again, and it alone.
SubmitEnabled_AddressOnly(h) == Trim(h.address) # <<>>
SubmitEnabled(h) == ~h.loading /\ Trim(h.address) # <<>>

\* The user submits the form: handleSearch runs up to its fetch.
SubmitSearch ==
  /\ SubmitEnabled(home)
  /\ Len(home.searches) < MaxPending
  /\ home' = [home EXCEPT !.loading = TRUE, !.error = Null,
                          !.searches = Append(@, [address |-> home.address,
                                                  shown |-> home.recommendations])]
  /\ UNCHANGED <<now, apiVars, pageVars, accountVars>>

\* The fetch of a search settles and handleSearch runs to its end: fetch
\* throws, or delivers the endpoint's answer or an answer that is not OK.
SearchSettles ==
  \E i \in 1..Len(home.searches) :
    LET search == home.searches[i]
        rest == [home EXCEPT
                   !.searches = SubSeq(@, 1, i - 1) \o SubSeq(@, i + 1, Len(@))]
        answer == PredictPOST(HomePredictBody(JsString(search.address)), now)
    IN \E outcome \in {"throws", "notOk", "answered"} :
         LET response == IF outcome = "notOk" THEN NotOkResponse ELSE answer
             ok == outcome # "throws" /\ response.status \in 200..299
             after == IF outcome = "throws"
                      THEN HomeAfterFailure(rest, "Failed to fetch")
                      ELSE IF ~ok
                      THEN HomeAfterFailure(rest, <<"API error: ", response.status>>)
                      ELSE HomeAfterSuccess(rest, response.body)
         IN /\ home' = [after EXCEPT
                          !.last = [outcome |-> IF ok THEN "succeeded" ELSE "failed",
                                    shown |-> search.shown,
                                    recommendations |->
                                      IF ok THEN after.recommendations ELSE <<>>]]
            /\ UNCHANGED <<now, apiVars, pageVars, accountVars>>

\* 'View on Map' of a recommendation shown: onSelectParking.
ViewOnMap ==
  \E k \in 1..Len(home.recommendations) :
    LET spot == home.recommendations[k] IN
    /\ home' = [home EXCEPT
                  !.selectedLocation = Obj([lat |-> spot.latitude,
                                            lng |-> spot.longitude,
                                            address |-> spot.name])]
    /\ UNCHANGED <<now, apiVars, pageVars, accountVars>>

NextHome == Tick \/ TypeAddress \/ SubmitSearch \/ SearchSettles \/ ViewOnMap

---------------------------------------------------------------------------
(* AuthForm and ParkingDetailsModal.                                       *)

\* The responses the API documentation gives for a successful login and a
\* successful registration.
LoginResponse ==
  [access_token |-> Str("eyJhbGciOiJIUzI1NiIs"), token_type |-> Str("bearer"),
   user_id |-> Num(1)]
RegisterResponse ==
  [id |-> Num(1), username |-> Str("john_doe"),
   email |-> Str("john@example.com"), created_at |-> Str("2024-01-15T10:30:00")]
DocumentedAuthResponse(mode) ==
  IF mode = "login" THEN LoginResponse ELSE RegisterResponse

\* Storage.setItem stores the string conversion of its value.
StoredString(value) ==
  IF value.t = "string" THEN value
  ELSE IF value.t = "undefined" THEN Str("undefined")
  ELSE IF value.t = "null" THEN Str("null")
  ELSE Str(<<value.v>>)

AuthInit ==
  [loading |-> FALSE, error |-> Str(""),
   submit |-> [phase |-> "none", mode |-> "login", before |-> Null,
               response |-> "none", onSuccess |-> <<>>]]

\* The form is submitted (its button is disabled while loading):
\* handleSubmit runs up to its fetch.
SubmitAuth ==
  \E mode \in {"login", "register"} :
    /\ ~auth.loading
    /\ auth' = [loading |-> TRUE, error |-> Str(""),
                submit |-> [phase |-> "pending", mode |-> mode,
                            before |-> localStorage, response |-> "none",
                            onSuccess |-> <<>>]]
    /\ UNCHANGED <<now, apiVars, pageVars, home, localStorage, modal>>

\* The fetch of handleSubmit settles and the handler runs to its end.
AuthSettles ==
  \E outcome \in {"throws", "notOk", "ok"} :
    LET data == DocumentedAuthResponse(auth.submit.mode)
        token == Get(data, "access_token")
    IN /\ auth.submit.phase = "pending"
       /\ localStorage' = IF outcome = "ok" THEN StoredString(token)
                          ELSE localStorage
       /\ auth' = [loading |-> FALSE,
                   error |-> IF outcome = "ok" THEN auth.error
                             ELSE IF outcome = "notOk"
                             THEN Str("Authentication failed")
                             ELSE Str("Failed to fetch"),
                   submit |-> [auth.submit EXCEPT
                                 !.phase = "done", !.response = outcome,
                                 !.onSuccess = IF outcome = "ok" THEN <<token>>
                                               ELSE <<>>]]
       /\ UNCHANGED <<now, apiVars, pageVars, home, modal>>

\* The spot the modal shows.
ModalSpot == mockRecommendations[1]

\* if (!token): handleBook goes on to its fetch only with a token.
BookingAllowed_Always(token) == TRUE

BookingAllowed(token) == ~Falsy(token)

\* The request handleBook sends.
BookingRequest(token, spot, clock) ==
  [url |-> "/api/bookings", method |-> "POST",
   headers |-> [Authorization |-> <<"Bearer ", token.v>>],
   body |-> [parking_slot_id |-> spot.spot_id, check_in_time |-> clock]]

ModalInit ==
  [bookingLoading |-> FALSE,
   booking |-> [phase |-> "none", token |-> Null, request |-> <<>>,
                response |-> "none", onBook |-> <<>>, onClose |-> 0]]

\* 'Book Spot' (disabled while bookingLoading): handleBook runs up to its
\* fetch, or to its end when there is no token.
BookSpot ==
  LET token == localStorage
      call == [phase |-> "done", token |-> token, request |-> <<>>,
               response |-> "none", onBook |-> <<>>, onClose |-> 0]
  IN /\ ~modal.bookingLoading
     /\ modal' =
          IF BookingAllowed(token)
          THEN [bookingLoading |-> TRUE,
                booking |-> [call EXCEPT
                               !.phase = "pending",
                               !.request = <<BookingRequest(token, ModalSpot, now)>>]]
          ELSE [bookingLoading |-> FALSE, booking |-> call]
     /\ UNCHANGED <<now, apiVars, pageVars, home, localStorage, auth>>

\* The fetch of handleBook settles and the handler runs to its end.
BookingSettles ==
  \E outcome \in {"throws", "notOk", "ok"} :
    /\ modal.booking.phase = "pending"
    /\ modal' = [bookingLoading |-> FALSE,
                 booking |-> [modal.booking EXCEPT
                                !.phase = "done", !.response = outcome,
                                !.onBook = IF outcome = "ok"
                                           THEN <<ModalSpot.spot_id>> ELSE <<>>,
                                !.onClose = IF outcome = "ok" THEN 1 ELSE 0]]
    /\ UNCHANGED <<now, apiVars, pageVars, home, localStorage, auth>>

NextAccount == Tick \/ SubmitAuth \/ AuthSettles \/ BookSpot \/ BookingSettles

Init ==
  /\ localStorage = Null
  /\ auth = AuthInit
  /\ modal = ModalInit
  /\ home = HomeInit
  /\ now = 0
  /\ predLog = <<>>
  /\ issued = <<>>
  /\ lastCall = [endpoint |-> "none", req |-> NullBody,
                 res |-> [status |-> 0, body |-> <<>>], at |-> 0,
                 stmts |-> NoStatements, dbOk |-> TRUE, inserted |-> 0]
  /\ db = <<>>
  /\ stage = "idle"
  /\ error = Null
  /\ assignment = Null
  /\ plateNumber = Null
  /\ imageBase64 = Null
  /\ isLoading = FALSE
  /\ runs = [r \in 1..MaxRuns |-> FreeRun]
  /\ cam = CamUnmounted
  /\ recogs = [cur |-> 0, stale |-> 0, shown |-> 0]
  /\ timers = <<>>
  /\ mediaStreams = [pending |-> 0, leaked |-> FALSE]

NextPredict == Tick \/ PredictRequest

SpecPredict == Init /\ [][NextPredict]_vars

\* A client posts to /api/send-parking-sms.
SmsRequest ==
  \E body \in SmsBodies, dbOk \in BOOLEAN :
    LET out == SmsPOST(body, dbOk, now) IN
    /\ Len(Execute(out, body, dbOk)) <= MaxRows
    /\ lastCall' = [endpoint |-> "send-parking-sms", req |-> body,
                    res |-> out.res, at |-> now,
                    stmts |-> out.stmts, dbOk |-> dbOk,
                    inserted |-> Len(Execute(out, body, dbOk)) - Len(db)]
    /\ db' = Execute(out, body, dbOk)
    /\ UNCHANGED <<now, predLog, issued, pageVars, siteVars>>

\* A client posts to /api/recognize-plate.
RecognizeRequest ==
  \E form \in RecognizeForms, dbOk \in BOOLEAN :
    LET out == RecognizePOST(form, dbOk, now) IN
    /\ Len(Execute(out, form, dbOk)) <= MaxRows
    /\ lastCall' = [endpoint |-> "recognize-plate", req |-> form,
                    res |-> out.res, at |-> now,
                    stmts |-> out.stmts, dbOk |-> dbOk,
                    inserted |-> Len(Execute(out, form, dbOk)) - Len(db)]
    /\ db' = Execute(out, form, dbOk)
    /\ UNCHANGED <<now, predLog, issued, pageVars, siteVars>>

\* A client posts to /api/print-parking-token.
PrintRequest ==
  \E body \in PrintBodies, dbOk \in BOOLEAN :
    LET out == PrintPOST(body, dbOk, now) IN
    /\ Len(Execute(out, body, dbOk)) <= MaxRows
    /\ lastCall' = [endpoint |-> "print-parking-token", req |-> body,
                    res |-> out.res, at |-> now,
                    stmts |-> out.stmts, dbOk |-> dbOk,
                    inserted |-> Len(Execute(out, body, dbOk)) - Len(db)]
    /\ db' = Execute(out, body, dbOk)
    /\ UNCHANGED <<now, predLog, issued, pageVars, siteVars>>

\* A client asks /api/print-parking-token for the job of a token.
PrintStatusRequest ==
  \E query \in PrintQueries, dbOk \in BOOLEAN :
    LET out == PrintGET(query, dbOk) IN
    /\ lastCall' = [endpoint |-> "print-parking-token GET",
                    req |-> ObjectBody(query), res |-> out.res, at |-> now,
                    stmts |-> out.stmts, dbOk |-> dbOk, inserted |-> 0]
    /\ UNCHANGED <<now, predLog, issued, db, pageVars, siteVars>>

NextJobs == Tick \/ PrintRequest \/ PrintStatusRequest

SpecJobs == Init /\ [][NextJobs]_vars

NextNotify == Tick \/ SmsRequest \/ RecognizeRequest \/ PrintRequest

SpecNotify == Init /\ [][NextNotify]_vars

NextToken == Tick \/ IssueToken

SpecPage == Init /\ [][NextPage]_vars

SpecHome == Init /\ [][NextHome]_vars

SpecAccount == Init /\ [][NextAccount]_vars

SpecToken == Init /\ [][NextToken]_vars

\* assignParking for the vehicle of a plate, its predict request answered:
\* the assignment made is kept, with the time it was made at.
AssignVehicle ==
  \E plate \in TokenPlates :
    LET res == PredictPOST(PagePredictBody(plate), now)
        a == NewAssignment(plate, res.body.recommendations[1], now)
    IN /\ Len(issued) < MaxIssued
       /\ res.status = 200
       /\ issued' = Append(issued, [plateNumber |-> plate, at |-> now,
                                    tokenNumber |-> a.tokenNumber,
                                    lotName |-> a.lotName,
                                    assignedSlot |-> a.assignedSlot])
       /\ UNCHANGED <<now, predLog, lastCall, db, pageVars, siteVars>>

NextAssign == Tick \/ AssignVehicle

SpecAssign == Init /\ [][NextAssign]_vars

---------------------------------------------------------------------------
(* Properties of POST /api/predict-availability.                           *)

\* The exchanges answered with a list of recommendations.
Answered200(e) == e.res.status = 200 /\ "recommendations" \in DOMAIN e.res.body

\* The documented score, x1000: 0.4 availability + 0.3 distance +
\* 0.2 traffic + 0.1 price, on scores kept x100.
WeightedSum(s) == 4 * s.availability + 3 * s.distance + 2 * s.traffic + s.price

\* f (x100) is WeightedSum rounded to two decimals, whichever way a half
\* is rounded.
RoundsTo(sum, f) == sum - 10 * f \in -5..5

\* C1: every recommendation returned carries scores.final equal to
\* 0.4*availability + 0.3*distance + 0.2*traffic + 0.1*price rounded to two
\* decimals.
C1_FinalIsWeightedSum ==
  \A i \in 1..Len(predLog) :
    Answered200(predLog[i]) =>
      \A k \in 1..Len(predLog[i].res.body.recommendations) :
        LET s == predLog[i].res.body.recommendations[k].scores IN
        RoundsTo(WeightedSum(s), s.final)

\* The card ParkingRecommendations labels 'Best Match': index === 0.
BestMatch(recommendations) == recommendations[1]

\* C2: the recommendations returned are ranked, scores.final non-increasing
\* along the array, so that the 'Best Match' card has the highest final
\* score.
C2_RankedByFinal ==
  \A i \in 1..Len(predLog) :
    Answered200(predLog[i]) =>
      LET recs == predLog[i].res.body.recommendations IN
      /\ \A k, l \in 1..Len(recs) :
           k < l => recs[k].scores.final >= recs[l].scores.final
      /\ \A k \in 1..Len(recs) :
           BestMatch(recs).scores.final >= recs[k].scores.final

\* A request that carries a non-empty address.
HasAddress(req) == req.kind = "object" /\ ~Falsy(Get(req.obj, "address"))

C7_PredictStatus ==
  \A i \in 1..Len(predLog) :
    LET req == predLog[i].req
        res == predLog[i].res
    IN /\ req.kind \in {"object", "null"} /\ Falsy(Get(req.obj, "address")) =>
            /\ res.status = 400
            /\ res.body = [error |-> "Address is required"]
       /\ HasAddress(req) =>
            /\ res.status = 200
            /\ "address" \in DOMAIN res.body
            /\ res.body.address = Get(req.obj, "address")
       /\ req.kind = "malformed" => res.status = 500

\* C7, amended: a request whose body is a JSON object with the
\* address missing or empty is answered 400 'Address is required' without
\* recommendations; one with a non-empty address is answered 200 with that
\* address echoed; a body that does not parse as JSON, or that is the JSON
\* value null, is answered 500.
C7_PredictStatusByBody ==
  \A i \in 1..Len(predLog) :
    LET req == predLog[i].req
        res == predLog[i].res
    IN /\ req.kind = "object" /\ Falsy(Get(req.obj, "address")) =>
            /\ res.status = 400
            /\ res.body = [error |-> "Address is required"]
       /\ HasAddress(req) =>
            /\ res.status = 200
            /\ "address" \in DOMAIN res.body
            /\ res.body.address = Get(req.obj, "address")
       /\ req.kind \in {"malformed", "null"} =>
            /\ res.status = 500
            /\ res.body = [error |-> "Failed to fetch recommendations"]

\* A missing or empty address, an address, and an unparseable body were
\* answered.
C7_Witness ==
  /\ \E i \in 1..Len(predLog) :
       /\ predLog[i].req \in {ObjectBody(<<>>), HomePredictBody(Str(""))}
       /\ predLog[i].res.status = 400
  /\ \E i \in 1..Len(predLog) :
       /\ predLog[i].req = HomePredictBody(Str("123 Main St"))
       /\ predLog[i].res.status = 200
  /\ \E i \in 1..Len(predLog) :
       /\ predLog[i].req = MalformedBody
       /\ predLog[i].res.status = 500

---------------------------------------------------------------------------
(* Properties of generateToken.                                            *)

\* C5: any two assignments have different token numbers, also when they are
\* made in the same millisecond or for plates sharing their last four
\* characters.
C5_TokensUnique ==
  \A i, j \in 1..Len(issued) :
    i # j => issued[i].tokenNumber # issued[j].tokenNumber

---------------------------------------------------------------------------
(* Properties of the SMS and print endpoints.                              *)

\* The fields each endpoint requires.
RequiredFields(endpoint) ==
  IF endpoint = "send-parking-sms"
  THEN {"phoneNumber", "plateNumber", "lotName", "tokenNumber"}
  ELSE {"tokenNumber", "plateNumber", "lotName"}

\* A call of the SMS or print endpoint whose body, of one of the kinds
\* given, holds a required field missing or empty.
MissingRequired(call, kinds) ==
  /\ call.endpoint \in {"send-parking-sms", "print-parking-token"}
  /\ call.req.kind \in kinds
  /\ \E f \in RequiredFields(call.endpoint) :
       Get(call.req.obj, f) \in {Undef, Str("")}

Rejected400(call) ==
  /\ call.res = [status |-> 400, body |-> [error |-> "Missing required fields"]]
  /\ call.inserted = 0

\* C10: a request to the SMS or print endpoint with a required field missing
\* or empty is answered 400 'Missing required fields', and nothing is
\* inserted into the database while it is handled.  A body holds no field
\* when it parses to null.
C10_MissingFieldsRejected ==
  MissingRequired(lastCall, {"object", "null"}) => Rejected400(lastCall)

\* C10, amended: a request to the SMS or print endpoint whose body is a JSON
\* object with a required field missing or empty is answered 400 'Missing
\* required fields', and a body that is the JSON value null is answered 500;
\* in both cases nothing is inserted into the database.
C10_MissingFieldsRejectedByBody ==
  /\ MissingRequired(lastCall, {"object"}) => Rejected400(lastCall)
  /\ MissingRequired(lastCall, {"null"}) =>
       /\ lastCall.res.status = 500
       /\ lastCall.inserted = 0

\* An SMS request without a token and a print request with an empty plate
\* were rejected.
C10_Witness ==
  /\ lastCall.res.status = 400
  /\ \/ /\ lastCall.endpoint = "send-parking-sms"
        /\ lastCall.req.obj = [phoneNumber |-> Str("x"), plateNumber |-> Str("x"),
                               lotName |-> Str("x"), estimatedCost |-> Num(1100)]
     \/ /\ lastCall.endpoint = "print-parking-token"
        /\ lastCall.req.obj = [tokenNumber |-> Str("x"), plateNumber |-> Str(""),
                               lotName |-> Str("x")]

\* A call of an endpoint whose body is an object holding every required
\* field, non-empty.
CarriesRequired(call) ==
  /\ call.req.kind = "object"
  /\ \A f \in RequiredFields(call.endpoint) : ~Falsy(Get(call.req.obj, f))

\* C11: a request to the SMS endpoint that carries phoneNumber, plateNumber,
\* lotName and tokenNumber, with any or no estimatedCost, is answered with
\* success true and the request's tokenNumber as token whenever the
\* database accepts the insert.
C11_SmsSuccess ==
  /\ lastCall.endpoint = "send-parking-sms"
  /\ CarriesRequired(lastCall)
  /\ lastCall.dbOk
  => /\ lastCall.res.status = 200
     /\ lastCall.res.body.success = TRUE
     /\ lastCall.res.body.token = Get(lastCall.req.obj, "tokenNumber")

\* C12: every success response of the print endpoint carries the request's
\* tokenNumber and the jobId PRINT_<tokenNumber>_<time of the call>, and is
\* sent only after the insert into printer_jobs completed without error; when
\* the insert throws the response is 500 'Failed to create print job'.
C12_PrintSuccessAfterInsert ==
  lastCall.endpoint = "print-parking-token" =>
    /\ lastCall.res.status = 200 =>
         /\ lastCall.res.body.success = TRUE
         /\ lastCall.res.body.tokenNumber = Get(lastCall.req.obj, "tokenNumber")
         /\ lastCall.res.body.jobId
              = <<"PRINT_", Get(lastCall.req.obj, "tokenNumber"), "_", lastCall.at>>
         /\ lastCall.stmts = <<PrintInsert>>
         /\ lastCall.dbOk
         /\ lastCall.inserted = 1
    /\ lastCall.stmts # NoStatements /\ ~lastCall.dbOk =>
         /\ lastCall.res = PrintError
         /\ lastCall.inserted = 0

\* A print request was answered with success after the clock had advanced.
C12_Witness ==
  /\ lastCall.endpoint = "print-parking-token"
  /\ lastCall.res.status = 200
  /\ lastCall.at > 0
  /\ lastCall.inserted = 1

\* The printer jobs created for a token: the inserts into printer_jobs
\* executed for a print request with that tokenNumber, oldest first.
JobsFor(token) ==
  SelectSeq(db, LAMBDA e : /\ e.stmt.table = "printer_jobs"
                           /\ Get(e.by.obj, "tokenNumber") = token)

\* C13: the status handler answers 400 'Token number required' when the
\* token parameter is absent, 404 'Print job not found' when no printer job
\* exists for the token, and otherwise 200 with the newest printer job of
\* that token.
C13_PrintStatus ==
  lastCall.endpoint = "print-parking-token GET" =>
    LET token == SearchParam(lastCall.req.obj, "token")
        jobs == JobsFor(token)
    IN /\ token = Null =>
            lastCall.res = [status |-> 400,
                            body |-> [error |-> "Token number required"]]
       /\ ~Falsy(token) /\ lastCall.dbOk /\ jobs = <<>> =>
            lastCall.res = [status |-> 404,
                            body |-> [error |-> "Print job not found"]]
       /\ ~Falsy(token) /\ lastCall.dbOk /\ jobs # <<>> =>
            /\ lastCall.res.status = 200
            /\ lastCall.res.body.job = RowOf(jobs[Len(jobs)])

\* C14: the recognize-plate endpoint answers 400 'No image file provided'
\* to a form without an image; every success response carries the plate
\* DL01AB1234 whatever the image; and 400 'Unable to recognize plate number'
\* is never answered.
C14_RecognitionIsStub ==
  lastCall.endpoint = "recognize-plate" =>
    /\ lastCall.req.kind = "object" /\ Falsy(Get(lastCall.req.obj, "image")) =>
         lastCall.res = [status |-> 400,
                         body |-> [error |-> "No image file provided"]]
    /\ lastCall.res.status = 200 =>
         /\ lastCall.res.body.success = TRUE
         /\ lastCall.res.body.plateNumber
              = Str(<<"D", "L", "0", "1", "A", "B", "1", "2", "3", "4">>)
    /\ lastCall.res.body # [error |-> "Unable to recognize plate number"]

\* The second image was recognized.
C14_Witness ==
  /\ lastCall.endpoint = "recognize-plate"
  /\ lastCall.req = ObjectBody([image |-> Str("jpeg-2")])
  /\ lastCall.res.status = 200

---------------------------------------------------------------------------
(* Properties of the automated-parking page and of CameraCapture.          *)

\* C3: the lot whose name, spot_id, distance and price go into an
\* assignment has the greatest scores.final among the recommendations of the
\* response the assignment was made from.
C3_OptimalLotAssigned ==
  \A r \in 1..MaxRuns :
    runs[r].newAssignment # Null =>
      LET a == runs[r].newAssignment.v
          recs == runs[r].recs
      IN \E k \in 1..Len(recs) :
           /\ a.lotName = recs[k].name
           /\ a.assignedSlot[1] = recs[k].spot_id
           /\ a.distance_km = recs[k].distance_km
           /\ a.estimated_cost = 2 * recs[k].price_per_hour
           /\ \A l \in 1..Len(recs) :
                recs[k].scores.final >= recs[l].scores.final

\* The order of the stages of a run, and the steps between runs: closing
\* the scanner, resetting, and trying again after an error.
StageOrder ==
  { <<"idle", "capturing">>, <<"capturing", "recognizing">>,
    <<"recognizing", "assigning">>, <<"assigning", "success">>,
    <<"assigning", "error">> }
BetweenRuns ==
  { <<"capturing", "idle">>, <<"success", "idle">>, <<"error", "idle">>,
    <<"error", "capturing">> }

\* In the events of a run, every b comes after an a.
Precedes(events, a, b) ==
  \A j \in 1..Len(events) :
    events[j] = b => \E i \in 1..(j - 1) : events[i] = a

\* Within a run the predict-availability request precedes the SMS request
\* and the SMS request has settled before the print request is sent.
C4_RequestOrder ==
  \A r \in 1..MaxRuns :
    /\ Precedes(runs[r].events, "predict-request", "sms-request")
    /\ Precedes(runs[r].events, "sms-settled", "print-request")

\* The stage is set to 'success' only by a run whose SMS request had
\* settled and whose print request settles.
C4_SuccessAfterBoth ==
  [][ stage' = "success" /\ stage # "success" =>
        \E r \in 1..MaxRuns :
          /\ runs[r].pc = "print"
          /\ runs'[r].pc = "free"
          /\ \E i \in 1..Len(runs[r].events) :
               runs[r].events[i] = "sms-settled" ]_vars

\* C4: the stage goes idle -> capturing -> recognizing -> assigning ->
\* (success | error) in every run; within assigning the predict-availability
\* request precedes the SMS request, the SMS request completes before the
\* print request is issued, and 'success' is set only after both completed.
C4_Orchestration ==
  [][ /\ stage' # stage => <<stage, stage'>> \in StageOrder \cup BetweenRuns
      /\ C4_RequestOrder'
      /\ stage' = "success" /\ stage # "success" =>
           \E r \in 1..MaxRuns :
             /\ runs[r].pc = "print"
             /\ runs'[r].pc = "free"
             /\ \E i \in 1..Len(runs[r].events) :
                  runs[r].events[i] = "sms-settled" ]_vars

\* C9: once getUserMedia has resolved with a stream in the mounted
\* CameraCapture, isCameraActive is true, cameraPermission is 'granted' and
\* 'Capture Photo' is enabled whenever it is rendered and nothing is loading.
C9_CameraBecomesActive ==
  stage = "capturing" /\ cam.getUserMedia = "resolved" =>
    /\ cam.isCameraActive
    /\ cam.cameraPermission = "granted"
    /\ cam.capturedImage = Null /\ ~cam.isLoading => CaptureEnabled(cam)

\* C16: the SMS and print requests of one assignment carry the same
\* tokenNumber, plateNumber, lotName, slot and estimatedCost, and the cost is
\* the price per hour of the assigned lot times the 120 minutes assigned.
C16_SameAssignment ==
  \A r \in 1..MaxRuns :
    runs[r].pc = "print" =>
      LET sms == runs[r].smsReq.obj
          print == runs[r].printReq.obj
          a == runs[r].newAssignment.v
          lot == CHOOSE k \in 1..Len(runs[r].recs) :
                   runs[r].recs[k].name = a.lotName
      IN /\ sms.tokenNumber = print.tokenNumber
         /\ sms.plateNumber = print.plateNumber
         /\ sms.lotName = print.lotName
         /\ sms.assignedSlot = print.slotNumber
         /\ sms.estimatedCost = print.estimatedCost
         /\ sms.lotName = Str(a.lotName)
         /\ a.duration_minutes = 120
         /\ sms.estimatedCost.v * 60
              = runs[r].recs[lot].price_per_hour * a.duration_minutes
         /\ sms.estimatedCost.v = 2 * runs[r].recs[lot].price_per_hour

\* Both requests of the assignment of a plate have been sent.
C16_Witness ==
  \E r \in 1..MaxRuns :
    /\ runs[r].pc = "print"
    /\ runs[r].smsReq.obj.estimatedCost = Num(1100)
    /\ runs[r].printReq.obj.plateNumber = Str(StubPlate)

\* An INSERT fits the schema: it names columns of its table only, supplies
\* every column that is NOT NULL without a default, and its ON CONFLICT
\* target is under a unique constraint.
FitsSchema(stmt) ==
  LET named == {stmt.columns[i] : i \in 1..Len(stmt.columns)} \cup stmt.updates
      table == Schema[stmt.table]
  IN /\ stmt.table \in DOMAIN Schema
     /\ named \subseteq table.columns
     /\ table.required \subseteq named
     /\ stmt.onConflict \subseteq table.unique

\* C17: every INSERT the SMS, plate and print handlers send names only
\* columns of its table, supplies every NOT NULL column without a default
\* and conflicts only on a unique column.
C17_InsertsFitSchema ==
  \A i \in 1..Len(lastCall.stmts) :
    "columns" \in DOMAIN lastCall.stmts[i] => FitsSchema(lastCall.stmts[i])

\* C18: whenever the SMS endpoint answers success, the call wrote a row to
\* sms_notifications whose phone number, plate number, message and token
\* number are those of the request.
C18_SmsStored ==
  lastCall.endpoint = "send-parking-sms" /\ lastCall.res.status = 200 =>
    /\ lastCall.inserted = 1
    /\ LET req == lastCall.req.obj
           row == RowOf(db[Len(db)])
       IN /\ db[Len(db)].stmt.table = "sms_notifications"
          /\ row.phone_number = Get(req, "phoneNumber")
          /\ row.plate_number = Get(req, "plateNumber")
          /\ row.token_number = Get(req, "tokenNumber")
          /\ row.message
               = formatAssignmentMessage(Get(req, "plateNumber"),
                   Get(req, "lotName"), Get(req, "assignedSlot"),
                   Get(req, "tokenNumber"), Get(req, "estimatedCost"),
                   Get(req, "distanceKm"))

---------------------------------------------------------------------------
(* Properties of Home.                                                     *)

\* C15: once a search has failed, error is set and no recommendations are
\* shown; once a search has succeeded, error is null and the recommendations
\* are the list of the response; loading is false when no search is in
\* flight; and whenever error is set, no recommendations are shown.
C15_SearchOutcome ==
  /\ home.searches = <<>> /\ home.last.outcome = "failed" =>
       /\ home.error # Null
       /\ home.recommendations = <<>>
  /\ home.searches = <<>> /\ home.last.outcome = "succeeded" =>
       /\ home.error = Null
       /\ home.recommendations = home.last.recommendations
       /\ home.recommendations = mockRecommendations
  /\ home.searches = <<>> => ~home.loading
  /\ home.error # Null => home.recommendations = <<>>

\* A search failed while the list of an earlier search was shown.
C15_Witness ==
  /\ home.searches = <<>>
  /\ home.last.outcome = "failed"
  /\ home.last.shown # <<>>
  /\ home.error # Null

---------------------------------------------------------------------------
(* Properties of ParkingDetailsModal and AuthForm.                         *)

\* C19: handleBook sends its request only with the token found in
\* localStorage and with the header Authorization: Bearer <token>; it calls
\* onBook(spot_id) and onClose only after an OK response; without a token it
\* sends nothing and calls neither; bookingLoading is false once it ended.
C19_BookingNeedsToken ==
  LET b == modal.booking IN
  /\ b.request # <<>> =>
       /\ ~Falsy(b.token)
       /\ b.request[1].url = "/api/bookings"
       /\ b.request[1].headers.Authorization = <<"Bearer ", b.token.v>>
  /\ b.onBook # <<>> \/ b.onClose > 0 =>
       /\ b.request # <<>>
       /\ b.response = "ok"
       /\ b.onBook = <<ModalSpot.spot_id>>
  /\ b.phase # "none" /\ Falsy(b.token) =>
       /\ b.request = <<>>
       /\ b.onBook = <<>>
       /\ b.onClose = 0
  /\ b.phase # "pending" => ~modal.bookingLoading

\* A booking made with the token of a login was answered OK.
C19_Witness ==
  /\ modal.booking.phase = "done"
  /\ modal.booking.token = LoginResponse.access_token
  /\ modal.booking.response = "ok"
  /\ modal.booking.onClose = 1

\* C20: after handleSubmit succeeded, in login or register mode, the item
\* stored under 'auth_token' is the access token the server issued and is
\* the value passed to onSuccess; after a response that is not OK the item
\* is unchanged, onSuccess was not called and error is 'Authentication
\* failed'; loading is false once it ended.
C20_AuthStoresToken ==
  LET sub == auth.submit IN
  /\ sub.phase = "done" /\ sub.response = "ok" =>
       /\ localStorage = LoginResponse.access_token
       /\ sub.onSuccess = <<localStorage>>
  /\ sub.phase = "done" /\ sub.response = "notOk" =>
       /\ localStorage = sub.before
       /\ sub.onSuccess = <<>>
       /\ auth.error = Str("Authentication failed")
  /\ sub.phase # "pending" => ~auth.loading

---------------------------------------------------------------------------
(* Properties of the page under overlapping callbacks.                     *)

\* C21: one recognized plate leads to at most one assignment: no step
\* starts a call of handlePlateDetected from the 500 ms callback of a
\* recognition whose plate 'Confirm & Proceed' has already passed to
\* onPlateDetected, so no second token, SMS request or print request is
\* made for that recognition.
C21_OneCallPerRecognition ==
  [][~(/\ timers # <<>>
       /\ Head(timers).confirmed
       /\ timers' = Tail(timers)
       /\ \E r \in 1..MaxRuns : runs[r].pc = "free" /\ runs'[r].pc = "delay")]_vars

\* C22: whenever the stage is 'success' the assignment is set, so the token
\* and 'Scan Another Vehicle' are rendered, in every interleaving of
\* handleReset, handlePlateDetected and the calls of assignParking awaiting
\* their SMS or print request.
C22_SuccessHasAssignment == stage = "success" => assignment # Null

\* C23: in stage 'idle' only 'Start Plate Recognition' changes the stage: no
\* step taken in stage 'idle' moves the stage anywhere but to 'capturing',
\* and none sends an SMS or a print request.
C23_IdleLeftOnlyByStart ==
  [][stage = "idle" =>
       /\ stage' \in {"idle", "capturing"}
       /\ \A r \in 1..MaxRuns :
            runs'[r].pc # runs[r].pc => runs'[r].pc \notin {"sms", "print"}]_vars

\* C24: the outcome of assignParking depends only on the answer to its
\* predict request.  A step that settles the SMS request of a call, whatever
\* the fetch came to, sends the print request and changes neither the stage
\* nor the error; a step that settles the print request sets the stage to
\* 'success' and leaves the error; and the stage becomes 'error' exactly in
\* the steps where a predict request threw, was not OK or brought no
\* recommendations, which end the call.
C24_OutcomeByPredictOnly ==
  [][/\ \A r \in 1..MaxRuns :
          /\ runs[r].pc = "sms" /\ runs'[r] # runs[r] =>
               runs'[r].pc = "print" /\ stage' = stage /\ error' = error
          /\ runs[r].pc = "print" /\ runs'[r] # runs[r] =>
               runs'[r].pc = "free" /\ stage' = "success" /\ error' = error
          /\ runs[r].pc = "predict" /\ runs'[r].pc = "free" =>
               stage' = "error" /\ error' # Null
          /\ runs[r].pc = "predict" /\ runs'[r].pc = "sms" =>
               stage' = stage /\ error' = error
     /\ stage' = "error" /\ stage # "error" =>
          \E r \in 1..MaxRuns : runs[r].pc = "predict" /\ runs'[r].pc = "free"]_vars

\* A call whose SMS request failed has gone on to its print request, with
\* no error set.
C24_Witness ==
  /\ error = Null
  /\ stage = "assigning"
  /\ \E r \in 1..MaxRuns : runs[r].pc = "print" /\ runs[r].smsFailed

---------------------------------------------------------------------------
(* Properties of the assignments assignParking makes.                      *)

\* C25: no two assignments occupy the same slot: the assignments made for
\* the vehicles of two different plates, none of them released, differ in
\* their lot or in their slot.
C25_SlotsNotShared ==
  \A i, j \in 1..Len(issued) :
    issued[i].plateNumber # issued[j].plateNumber =>
      <<issued[i].lotName, issued[i].assignedSlot>>
        # <<issued[j].lotName, issued[j].assignedSlot>>

---------------------------------------------------------------------------
(* Properties of the searches and the selection of Home.                   *)

\* C26: from the home page at most one search request is in flight, loading
\* is true exactly while one is, and every request in flight carries an
\* address that is not empty when trimmed, which the endpoint does not
\* answer with 400.
C26_OneSearchInFlight ==
  /\ Len(home.searches) <= 1
  /\ home.loading <=> Len(home.searches) = 1
  /\ \A i \in 1..Len(home.searches) :
       LET address == home.searches[i].address IN
       /\ Trim(address) # <<>>
       /\ PredictPOST(HomePredictBody(JsString(address)), now).status # 400

\* A search is in flight for an address that begins with a blank.
C26_Witness ==
  /\ home.loading
  /\ Len(home.searches) = 1
  /\ home.searches[1].address = <<" ", "a">>

\* C28: whenever selectedLocation is set it is the position and the name of
\* a spot of the current list of recommendations.
C28_SelectionInList ==
  home.selectedLocation # Null =>
    \E k \in 1..Len(home.recommendations) :
      LET spot == home.recommendations[k] IN
      home.selectedLocation.v = [lat |-> spot.latitude, lng |-> spot.longitude,
                                 address |-> spot.name]

---------------------------------------------------------------------------
(* Properties of CameraCapture.                                            *)

\* C27: in the mounted CameraCapture, error and detectedPlate are never both
\* set, and isLoading is true whenever one of its recognition requests is
\* in flight.
C27_CameraStateConsistent ==
  stage = "capturing" =>
    /\ ~(cam.error # Null /\ cam.detectedPlate # Null)
    /\ recogs.cur > 0 => cam.isLoading

\* C29: CameraCapture releases the camera: while no instance is mounted, no
\* stream obtained from getUserMedia is left with tracks that are not
\* stopped.
C29_CameraReleased == stage # "capturing" => ~mediaStreams.leaked

===========================================================================
